---- MODULE Spec2Model ----
(***************************************************************************)
(* RecipeAPI (recipe_api.py): the search pipeline, its image cache kept in *)
(* cached.json, and the incremental file-name allocator, modelled as a     *)
(* state machine over the working directory shared by the processes that   *)
(* run search.                                                             *)
(*                                                                         *)
(* A path is a record [dir, name, num]: os.path.join(dir, name + "_" +     *)
(* str(num) + ".jpg").  The placeholder "default_img.jpg" has no directory *)
(* and no number suffix (dir = "", num = 0).                               *)
(* A file's data is the url its bytes were fetched from; by is the process *)
(* that wrote it last.                                                     *)
(***************************************************************************)
EXTENDS Integers, Sequences, FiniteSets, TLC

VARIABLES
    files,        \* the image files on disk: path -> [data, by]
    dirs,         \* the directories that exist in the working directory
    cacheFile,    \* cached.json: [exists, map, by], map: url -> path
    budget,       \* searches that may still be started
    procs,        \* the processes that run search
    bodies,       \* the response bodies the remote api may answer with
    pc,           \* per process: position in search
    req,          \* per process: outcome of the search GET of this run
    dict,         \* per process: the parsed response body
    cache,        \* per process: the in-memory cache mapping
    loaded,       \* per process: the mapping as loaded at line 139-144
    rtn_list,     \* per process: the records appended so far
    idx,          \* per process: index in dict["hits"] of the current hit
    log,          \* per process: per hit, what was fetched and written
    file_path,    \* per process: the path _gen_file_name returned
    saves,        \* per process: writes of cached.json in this run
    atStart,      \* per process: the disk as it was when search was called
    arg,          \* arguments of a direct call of _gen_file_name
    ret           \* its result

vars == << files, dirs, cacheFile, budget, procs, bodies, pc, req, dict, cache,
           loaded, rtn_list, idx, log, file_path, saves, atStart, arg, ret >>

diskVars == << files, dirs, cacheFile >>
allocVars == << arg, ret >>

\* ------------------------------------------------------------------ bounds

MaxHits == 2          \* longest hits sequence of a response
MaxSearches == 3      \* searches of a sequential run
MaxConcSearches == 2  \* searches started in all when two processes run
MaxNum == 3           \* largest number suffix of a pre-existing file

\* ------------------------------------------------------------------ values

Procs == {1, 2}

NoPath == [dir |-> "", name |-> "", num |-> 0]
Path(dir, name, num) == [dir |-> dir, name |-> name, num |-> num]

\* self.default_img_path
default_img_path == [dir |-> "", name |-> "default_img", num |-> 0]

img_dir == "img"

\* the dir parameter's default of _download_file
download_dir == "download"

\* the name search passes to _download_file
img_name == "img"

EmptyMap == [u \in {} |-> NoPath]
MapPut(m, k, v) == [x \in (DOMAIN m) \cup {k} |-> IF x = k THEN v ELSE m[x]]
Range(f) == {f[x] : x \in DOMAIN f}

RECURSIVE SeqsUpTo(_, _)
SeqsUpTo(S, n) ==
    IF n = 0 THEN {<< >>}
    ELSE LET shorter == SeqsUpTo(S, n - 1)
         IN  shorter \cup {Append(s, x) : s \in {t \in shorter : Len(t) = n - 1}, x \in S}

\* The hits a response may hold: two well-formed ones with different images,
\* one without "label" and one without "image".
Hit1 == [recipe |-> [image |-> "http://x/1.jpg", label |-> "Pie",
                     source |-> "Ann", url |-> "http://r/1"]]
Hit2 == [recipe |-> [image |-> "http://x/2.jpg", label |-> "Tart",
                     source |-> "Bob", url |-> "http://r/2"]]
HitNoLabel == [recipe |-> [image |-> "http://x/2.jpg",
                           source |-> "Cy", url |-> "http://r/3"]]
HitNoImage == [recipe |-> [label |-> "Jam", source |-> "Di", url |-> "http://r/4"]]

GoodHits == {Hit1, Hit2}
AllHits == {Hit1, Hit2, HitNoLabel, HitNoImage}

\* a body json.loads parses: with "hits", or without (an error object)
Body(hits) == [hits |-> hits]
BodyNoHits == [count |-> 0]

\* outcomes of one urlopen: a body, an empty body, an HTTP error response,
\* a connection-level failure
NetOutcomes == {"body", "empty", "HTTPError", "URLError"}

\* ------------------------------------------------------------------ helpers

NoFile == [exists |-> FALSE, map |-> EmptyMap, by |-> 0]
NoBody == [none |-> TRUE]
NoDisk == [files |-> EmptyMap, dirs |-> {}, cacheFile |-> NoFile]
Disk == [files |-> files, dirs |-> dirs, cacheFile |-> cacheFile]

\* What _http_get yields for an outcome of urlopen: the bytes read, None for
\* an HTTP error response; any other failure of urlopen is not caught.
_http_get(outcome, content) ==
    [raised |-> outcome = "URLError",
     none   |-> outcome = "HTTPError",
     bytes  |-> IF outcome = "body" THEN << content >> ELSE << >>]

\* json.loads(data): the parsed body; empty input is no JSON document
json_loads(bytes) ==
    [raised |-> Len(bytes) = 0,
     value  |-> IF Len(bytes) = 0 THEN NoBody ELSE bytes[1]]

HasDataNotNone(data) == ~data.none

\* data != None and len(data) != 0
HasData(data) == ~data.none /\ Len(data.bytes) # 0

_gen_file_name_first(dir, name, f_num) == Path(dir, name, f_num)

\* _gen_file_name: the first dir/name_N.jpg, N >= f_num, that does not exist
RECURSIVE _gen_file_name(_, _, _)
_gen_file_name(dir, name, f_num) ==
    IF Path(dir, name, f_num) \in DOMAIN files
    THEN _gen_file_name(dir, name, f_num + 1)
    ELSE Path(dir, name, f_num)

InCacheNever(c, img_url) == FALSE

\* img_url in cache
InCache(c, img_url) == img_url \in DOMAIN c

RecordSwapped(result, dl_file) ==
    [name   |-> result.recipe.source,
     image  |-> dl_file,
     source |-> result.recipe.label,
     url    |-> result.recipe.url]

\* the dictionary d built for one hit
Record(result, dl_file) ==
    [name   |-> result.recipe.label,
     image  |-> dl_file,
     source |-> result.recipe.source,
     url    |-> result.recipe.url]

\* a key the record is built from is absent: the lookup raises KeyError
MissingField(result) ==
    \E k \in {"label", "source", "url"} : k \notin DOMAIN result.recipe

Hits(p) == dict[p].hits
Result(p) == Hits(p)[idx[p]]
ImgUrl(p) == Result(p).recipe.image

LoopDoneAfterFirst(p) == idx[p] > 1 \/ idx[p] > Len(Hits(p))

\* the for loop over dict["hits"] is exhausted
LoopDone(p) == idx[p] > Len(Hits(p))

DumpMerged(p) ==
    IF cacheFile.exists
    THEN [u \in (DOMAIN cacheFile.map) \cup (DOMAIN cache[p]) |->
            IF u \in DOMAIN cache[p] THEN cache[p][u] ELSE cacheFile.map[u]]
    ELSE cache[p]

\* what json.dump(cache, f) writes
Dump(p) == cache[p]

NewEntry == [cached |-> FALSE, get |-> "none", wrote |-> NoPath, existed |-> FALSE]

\* lines 168-172: build the record and append it, or KeyError
AppendRecord(p, dl_file) ==
    IF MissingField(Result(p))
    THEN /\ pc' = [pc EXCEPT ![p] = "raised"]
         /\ UNCHANGED << rtn_list, idx >>
    ELSE /\ rtn_list' = [rtn_list EXCEPT ![p] = Append(@, Record(Result(p), dl_file))]
         /\ idx' = [idx EXCEPT ![p] = @ + 1]
         /\ pc' = [pc EXCEPT ![p] = "hit"]

Raise(p) == pc' = [pc EXCEPT ![p] = "raised"]

SetLog(p, field, v) ==
    log' = [log EXCEPT ![p] = [@ EXCEPT ![idx[p]] = [@ EXCEPT ![field] = v]]]

\* ------------------------------------------------------------------ search

\* lines 131-137: the request; an absent or empty answer returns []
StartSearch(p) ==
    /\ p \in procs
    /\ pc[p] = "idle"
    /\ budget > 0
    /\ budget' = budget - 1
    /\ atStart' = [atStart EXCEPT ![p] = Disk]
    /\ \E outcome \in NetOutcomes, body \in bodies :
         LET data == _http_get(outcome, body)
         IN  /\ req' = [req EXCEPT ![p] = outcome]
             /\ IF data.raised
                THEN /\ Raise(p)
                     /\ UNCHANGED dict
                ELSE IF HasData(data)
                THEN IF json_loads(data.bytes).raised
                     THEN /\ Raise(p)
                          /\ UNCHANGED dict
                     ELSE /\ dict' = [dict EXCEPT ![p] = json_loads(data.bytes).value]
                          /\ pc' = [pc EXCEPT ![p] = "load"]
                ELSE /\ pc' = [pc EXCEPT ![p] = "done"]
                     /\ UNCHANGED dict
    /\ UNCHANGED << diskVars, procs, bodies, cache, loaded, rtn_list, idx, log,
                    file_path, saves, allocVars >>

\* lines 139-149: load cached.json when it exists, then enter the loop over
\* dict["hits"] (KeyError when the body has no "hits")
LoadCache(p) ==
    /\ pc[p] = "load"
    /\ LET c == IF cacheFile.exists THEN cacheFile.map ELSE EmptyMap
       IN  /\ cache' = [cache EXCEPT ![p] = c]
           /\ loaded' = [loaded EXCEPT ![p] = c]
    /\ IF "hits" \in DOMAIN dict[p]
       THEN pc' = [pc EXCEPT ![p] = "hit"]
       ELSE Raise(p)
    /\ UNCHANGED << diskVars, budget, procs, bodies, req, dict, rtn_list, idx, log,
                    file_path, saves, atStart, allocVars >>

\* lines 149-157: the next hit; a cached image is used without any I/O
NextHit(p) ==
    /\ pc[p] = "hit"
    /\ ~LoopDone(p)
    /\ IF "image" \notin DOMAIN Result(p).recipe
       THEN /\ Raise(p)
            /\ UNCHANGED << rtn_list, idx, log >>
       ELSE IF InCache(cache[p], ImgUrl(p))
       THEN /\ log' = [log EXCEPT ![p] = Append(@, [NewEntry EXCEPT !.cached = TRUE])]
            /\ AppendRecord(p, cache[p][ImgUrl(p)])
       ELSE /\ log' = [log EXCEPT ![p] = Append(@, NewEntry)]
            /\ pc' = [pc EXCEPT ![p] = "download"]
            /\ UNCHANGED << rtn_list, idx >>
    /\ UNCHANGED << diskVars, budget, procs, bodies, req, dict, cache, loaded,
                    file_path, saves, atStart, allocVars >>

\* lines 61-73, 79, 161-162: _download_file up to the test of the data; without
\* data it returns None and search takes the default image
DownloadFile(p) ==
    /\ pc[p] = "download"
    /\ dirs' = dirs \cup {download_dir}
    /\ \E outcome \in NetOutcomes :
         LET data == _http_get(outcome, ImgUrl(p))
         IN  /\ SetLog(p, "get", outcome)
             /\ IF data.raised
                THEN /\ Raise(p)
                     /\ UNCHANGED << rtn_list, idx >>
                ELSE IF HasData(data)
                THEN /\ pc' = [pc EXCEPT ![p] = "gen"]
                     /\ UNCHANGED << rtn_list, idx >>
                ELSE AppendRecord(p, default_img_path)
    /\ UNCHANGED << files, cacheFile, budget, procs, bodies, req, dict, cache, loaded,
                    file_path, saves, atStart, allocVars >>

\* line 75: file_path = self._gen_file_name(dir, name)
GenFileName(p) ==
    /\ pc[p] = "gen"
    /\ file_path' = [file_path EXCEPT ![p] = _gen_file_name(download_dir, img_name, 1)]
    /\ pc' = [pc EXCEPT ![p] = "write"]
    /\ UNCHANGED << diskVars, budget, procs, bodies, req, dict, cache, loaded, rtn_list,
                    idx, log, saves, atStart, allocVars >>

\* lines 76-78, 163-172: write the file, cache its path, append the record
WriteFile(p) ==
    /\ pc[p] = "write"
    /\ files' = MapPut(files, file_path[p], [data |-> ImgUrl(p), by |-> p])
    /\ cache' = [cache EXCEPT ![p] = MapPut(@, ImgUrl(p), file_path[p])]
    /\ log' = [log EXCEPT ![p] = [@ EXCEPT ![idx[p]] =
                 [@ EXCEPT !.wrote = file_path[p],
                           !.existed = file_path[p] \in DOMAIN files]]]
    /\ AppendRecord(p, file_path[p])
    /\ UNCHANGED << dirs, cacheFile, budget, procs, bodies, req, dict, loaded,
                    file_path, saves, atStart, allocVars >>

\* lines 174-177: after the loop, write cached.json and return rtn_list
SaveCache(p) ==
    /\ pc[p] = "hit"
    /\ LoopDone(p)
    /\ cacheFile' = [exists |-> TRUE, map |-> Dump(p), by |-> p]
    /\ saves' = [saves EXCEPT ![p] = @ + 1]
    /\ pc' = [pc EXCEPT ![p] = "done"]
    /\ UNCHANGED << files, dirs, budget, procs, bodies, req, dict, cache, loaded,
                    rtn_list, idx, log, file_path, atStart, allocVars >>

\* search has returned or raised; the caller may call it again
Return(p) ==
    /\ pc[p] \in {"done", "raised"}
    /\ pc' = [pc EXCEPT ![p] = "idle"]
    /\ req' = [req EXCEPT ![p] = "none"]
    /\ dict' = [dict EXCEPT ![p] = NoBody]
    /\ cache' = [cache EXCEPT ![p] = EmptyMap]
    /\ loaded' = [loaded EXCEPT ![p] = EmptyMap]
    /\ rtn_list' = [rtn_list EXCEPT ![p] = << >>]
    /\ idx' = [idx EXCEPT ![p] = 1]
    /\ log' = [log EXCEPT ![p] = << >>]
    /\ file_path' = [file_path EXCEPT ![p] = NoPath]
    /\ saves' = [saves EXCEPT ![p] = 0]
    /\ atStart' = [atStart EXCEPT ![p] = NoDisk]
    /\ UNCHANGED << diskVars, budget, procs, bodies, allocVars >>

\* cached.json is absent at the next search (lines 140, 143-144)
CacheFileLost ==
    /\ cacheFile.exists
    /\ budget > 0
    /\ \A p \in Procs : pc[p] = "idle"
    /\ cacheFile' = NoFile
    /\ UNCHANGED << files, dirs, budget, procs, bodies, pc, req, dict, cache, loaded,
                    rtn_list, idx, log, file_path, saves, atStart, allocVars >>

\* a direct call of _gen_file_name(dir, name)
GenFileNameCall ==
    /\ ret = NoPath
    /\ arg # NoPath
    /\ ret' = _gen_file_name(arg.dir, arg.name, 1)
    /\ UNCHANGED << diskVars, budget, procs, bodies, pc, req, dict, cache, loaded,
                    rtn_list, idx, log, file_path, saves, atStart, arg >>

\* ------------------------------------------------------------ specifications

InitLocals ==
    /\ dirs = {}
    /\ cacheFile = NoFile
    /\ pc = [p \in Procs |-> "idle"]
    /\ req = [p \in Procs |-> "none"]
    /\ dict = [p \in Procs |-> NoBody]
    /\ cache = [p \in Procs |-> EmptyMap]
    /\ loaded = [p \in Procs |-> EmptyMap]
    /\ rtn_list = [p \in Procs |-> << >>]
    /\ idx = [p \in Procs |-> 1]
    /\ log = [p \in Procs |-> << >>]
    /\ file_path = [p \in Procs |-> NoPath]
    /\ saves = [p \in Procs |-> 0]
    /\ atStart = [p \in Procs |-> NoDisk]
    /\ ret = NoPath

\* one process, a fresh working directory
Init ==
    /\ InitLocals
    /\ files = EmptyMap
    /\ procs = {1}
    /\ budget = MaxSearches
    /\ bodies = {Body(h) : h \in SeqsUpTo(AllHits, MaxHits)} \cup {BodyNoHits}
    /\ arg = NoPath

\* two processes in the same working directory; every response holds at
\* most one hit, a well-formed one
InitConc ==
    /\ InitLocals
    /\ files = EmptyMap
    /\ procs = Procs
    /\ budget = MaxConcSearches
    /\ bodies = {Body(<< >>)} \cup {Body(<< h >>) : h \in GoodHits}
    /\ arg = NoPath

\* a call of _gen_file_name on any directory content
AllocDirs == {"download", "img"}
AllocNames == {"img", "pic"}
AllocPaths == {Path(d, n, k) : d \in AllocDirs, n \in AllocNames, k \in 1..MaxNum}

InitAlloc ==
    /\ InitLocals
    /\ procs = {}
    /\ budget = 0
    /\ bodies = {}
    /\ \E S \in SUBSET AllocPaths : files = [f \in S |-> [data |-> "", by |-> 0]]
    /\ \E d \in AllocDirs, n \in AllocNames : arg = Path(d, n, 0)

Next ==
    \/ \E p \in Procs : StartSearch(p)
    \/ \E p \in Procs : LoadCache(p)
    \/ \E p \in Procs : NextHit(p)
    \/ \E p \in Procs : DownloadFile(p)
    \/ \E p \in Procs : GenFileName(p)
    \/ \E p \in Procs : WriteFile(p)
    \/ \E p \in Procs : SaveCache(p)
    \/ \E p \in Procs : Return(p)
    \/ CacheFileLost

NextAlloc == GenFileNameCall

Spec == Init /\ [][Next]_vars
SpecConc == InitConc /\ [][Next]_vars
SpecAlloc == InitAlloc /\ [][NextAlloc]_vars

\* ------------------------------------------------------------------ claims

HitUrl(p, i) == Hits(p)[i].recipe.image
FailedGet == {"HTTPError", "empty"}
Wrote(p, i) == log[p][i].wrote # NoPath
Injective(m) == \A u, v \in DOMAIN m : m[u] = m[v] => u = v

\* C1: a hit whose image url is a key of the cache search loaded gets the
\* stored path as its record's image, issues no download and writes no file.
C1_CacheHit ==
    \A p \in Procs : \A i \in 1..Len(log[p]) :
        HitUrl(p, i) \in DOMAIN loaded[p] =>
            /\ log[p][i].cached
            /\ log[p][i].get = "none"
            /\ log[p][i].wrote = NoPath
            /\ i <= Len(rtn_list[p]) => rtn_list[p][i].image = loaded[p][HitUrl(p, i)]

C1_Witness ==
    \E p \in Procs : \E i \in 1..Len(rtn_list[p]) :
        /\ HitUrl(p, i) \in DOMAIN loaded[p]
        /\ rtn_list[p][i].image = loaded[p][HitUrl(p, i)]
        /\ rtn_list[p][i].image \in DOMAIN files

\* the part of C2 that holds as stated: the placeholder is returned and no
\* file is written for the hit
C2_PlaceholderNoFile(p, i) ==
    /\ log[p][i].wrote = NoPath
    /\ i <= Len(rtn_list[p]) => rtn_list[p][i].image = default_img_path

\* a url absent from cached.json when search starts is downloaded at its
\* first hit
C2_Retried(p, i) ==
    (/\ HitUrl(p, i) \notin DOMAIN atStart[p].cacheFile.map
     /\ \A j \in 1..(i - 1) : HitUrl(p, j) # HitUrl(p, i))
    => /\ ~log[p][i].cached
       /\ (i < Len(log[p]) \/ pc[p] # "download") => log[p][i].get # "none"

\* C2 as stated: a hit whose download fails (absent or empty response) gets
\* the placeholder, writes no file, and the cache file written at the end of
\* the search has no entry for its url.
C2_Original ==
    \A p \in Procs : \A i \in 1..Len(log[p]) :
        log[p][i].get \in FailedGet =>
            /\ C2_PlaceholderNoFile(p, i)
            /\ (pc[p] = "done" /\ saves[p] = 1) =>
                   HitUrl(p, i) \notin DOMAIN cacheFile.map

\* C2 amended: as C2, but the cache file written at the end has no entry for
\* the url unless another hit of the same search with the same url was
\* downloaded; a url without an entry at the start of a search is downloaded
\* at its first hit.
C2_FailedDownload ==
    \A p \in Procs : \A i \in 1..Len(log[p]) :
        /\ log[p][i].get \in FailedGet =>
            /\ C2_PlaceholderNoFile(p, i)
            /\ (/\ pc[p] = "done"
                /\ saves[p] = 1
                /\ \A j \in 1..Len(log[p]) : HitUrl(p, j) = HitUrl(p, i) => ~Wrote(p, j))
               => HitUrl(p, i) \notin DOMAIN cacheFile.map
        /\ C2_Retried(p, i)

C2_Witness ==
    \E p \in Procs : \E i \in 1..Len(rtn_list[p]) :
        /\ log[p][i].get \in FailedGet
        /\ rtn_list[p][i].image = default_img_path
        /\ pc[p] = "done"
        /\ saves[p] = 1
        /\ HitUrl(p, i) \notin DOMAIN cacheFile.map
        /\ files # EmptyMap

\* C3: whenever the search GET fails (HTTP error response, connection-level
\* failure or empty body) search returns [] without raising and leaves the
\* cache file and the image directory as they were.
C3_FailedRequest ==
    \A p \in Procs :
        req[p] \in {"HTTPError", "URLError", "empty"} =>
            /\ pc[p] = "done"
            /\ rtn_list[p] = << >>
            /\ Disk = atStart[p]

C4_DownloadedInto(dir) ==
    /\ \A f \in DOMAIN files : f.dir = dir /\ f.name = "img" /\ f.num >= 1
    /\ \A p \in Procs : \A i \in 1..Len(log[p]) :
         Wrote(p, i) =>
            /\ log[p][i].wrote \in DOMAIN files
            /\ log[p][i].wrote.dir = dir
            /\ dir \in dirs
            /\ cache[p][HitUrl(p, i)] = log[p][i].wrote
            /\ i <= Len(rtn_list[p]) => rtn_list[p][i].image = log[p][i].wrote
    /\ cacheFile.exists => \A u \in DOMAIN cacheFile.map : cacheFile.map[u].dir = dir

C5_LeastFree ==
    ret # NoPath =>
        /\ ret.dir = arg.dir
        /\ ret.name = arg.name
        /\ ret.num >= 1
        /\ ret \notin DOMAIN files
        /\ \A k \in 1..(ret.num - 1) : Path(arg.dir, arg.name, k) \in DOMAIN files

C5_Witness ==
    /\ ret # NoPath
    /\ ret.num = 2
    /\ Path(arg.dir, arg.name, 3) \in DOMAIN files
    /\ \E f \in DOMAIN files : f.dir # arg.dir

\* C6: search returns one record per hit, in the order of hits, with name,
\* source and url copied from the hit; a hit whose download fails keeps its
\* record, with the placeholder image.
C6_ResultShape ==
    \A p \in Procs :
        /\ \A i \in 1..Len(rtn_list[p]) :
             /\ rtn_list[p][i].name = Hits(p)[i].recipe.label
             /\ rtn_list[p][i].source = Hits(p)[i].recipe.source
             /\ rtn_list[p][i].url = Hits(p)[i].recipe.url
             /\ log[p][i].get \in FailedGet => rtn_list[p][i].image = default_img_path
        /\ (pc[p] = "done" /\ req[p] = "body") => Len(rtn_list[p]) = Len(Hits(p))

C6_Witness ==
    \E p \in Procs :
        /\ pc[p] = "done"
        /\ Len(rtn_list[p]) = 2
        /\ log[p][1].get \in FailedGet
        /\ Wrote(p, 2)
        /\ rtn_list[p][1].name # rtn_list[p][2].name

\* C7: a search whose request returned data writes cached.json once, after
\* every hit is resolved; a search that aborts never writes it, so it keeps
\* its content while files downloaded in that run stay on disk uncached.
C7_SaveOnce ==
    \A p \in Procs :
        /\ saves[p] <= 1
        /\ saves[p] = 1 => (pc[p] = "done" /\ Len(rtn_list[p]) = Len(Hits(p)))
        /\ (pc[p] = "done" /\ req[p] = "body") => saves[p] = 1
        /\ pc[p] \in {"load", "hit", "download", "gen", "write", "raised"} =>
              (saves[p] = 0 /\ cacheFile = atStart[p].cacheFile)

C7_Witness ==
    \E p \in Procs : \E i \in 1..Len(log[p]) :
        /\ pc[p] = "raised"
        /\ Wrote(p, i)
        /\ log[p][i].wrote \in DOMAIN files
        /\ cacheFile.exists
        /\ log[p][i].wrote \notin Range(cacheFile.map)

\* C8: with two processes a write lands on an existing path only when the
\* other process created that path after this one chose it; the write then
\* replaces the content, and both processes keep the path for their url.
C8_AllocationRace ==
    \A p \in Procs :
        /\ (pc[p] = "write" /\ file_path[p] \in DOMAIN files) =>
              files[file_path[p]].by # p
        /\ \A i \in 1..Len(log[p]) :
             Wrote(p, i) =>
                /\ cache[p][HitUrl(p, i)] = log[p][i].wrote
                /\ files[log[p][i].wrote].by = p =>
                      files[log[p][i].wrote].data = HitUrl(p, i)
                /\ log[p][i].existed => files[log[p][i].wrote].by = p

C8_Witness ==
    \E p, q \in Procs :
        /\ p # q
        /\ pc[p] = "done" /\ pc[q] = "done"
        /\ Len(rtn_list[p]) = 1 /\ Len(rtn_list[q]) = 1
        /\ HitUrl(p, 1) # HitUrl(q, 1)
        /\ Wrote(p, 1) /\ ~log[p][1].existed
        /\ Wrote(q, 1) /\ log[q][1].existed
        /\ rtn_list[p][1].image = rtn_list[q][1].image
        /\ cache[p][HitUrl(p, 1)] = cache[q][HitUrl(q, 1)]
        /\ files[rtn_list[p][1].image].data = HitUrl(q, 1)

\* C9: the cache file holds exactly the mapping of the process that wrote it
\* last: what that process loaded plus its own downloads, nothing merged in.
C9_LastWriterWins ==
    \A p \in Procs :
        (cacheFile.exists /\ cacheFile.by = p /\ saves[p] = 1) =>
            /\ cacheFile.map = cache[p]
            /\ DOMAIN cacheFile.map =
                 (DOMAIN loaded[p]) \cup {HitUrl(p, i) : i \in {j \in 1..Len(log[p]) : Wrote(p, j)}}

C9_Witness ==
    \E p, q \in Procs :
        /\ p # q
        /\ pc[p] = "done" /\ pc[q] = "done"
        /\ saves[p] = 1 /\ saves[q] = 1
        /\ loaded[p] = loaded[q]
        /\ Len(log[p]) = 1 /\ Len(log[q]) = 1
        /\ Wrote(p, 1) /\ Wrote(q, 1)
        /\ HitUrl(p, 1) # HitUrl(q, 1)
        /\ log[p][1].wrote # log[q][1].wrote
        /\ cacheFile.by = q
        /\ HitUrl(p, 1) \notin DOMAIN cacheFile.map
        /\ HitUrl(q, 1) \in DOMAIN cacheFile.map

\* C10: in single-process use no download writes to an existing path, every
\* cache value is a file that exists, and distinct urls have distinct paths.
C10_NoOverwrite ==
    /\ \A p \in Procs :
         /\ pc[p] = "write" => file_path[p] \notin DOMAIN files
         /\ \A i \in 1..Len(log[p]) : ~log[p][i].existed
         /\ Range(cache[p]) \subseteq DOMAIN files
         /\ Injective(cache[p])
    /\ Range(cacheFile.map) \subseteq DOMAIN files
    /\ Injective(cacheFile.map)

C10_Witness ==
    /\ Cardinality(DOMAIN files) = 3
    /\ cacheFile.exists
    /\ Cardinality(DOMAIN cacheFile.map) = 2
    /\ \E f \in DOMAIN files : f \notin Range(cacheFile.map)

====
